---- MODULE Spec2Model ----
(***************************************************************************)
(* Reconciliation of beneficial-ownership transactions into BODS           *)
(* statements (src/statements.js).  One run of statements(data) is a fold  *)
(* over data.data.data_transaksi; the state threaded through the fold is   *)
(* the set of statementIDs seen so far and the full statement list of the  *)
(* previous transaction.                                                   *)
(***************************************************************************)
EXTENDS Integers, Sequences, FiniteSets

(***************************************************************************)
(* Bounds of the input.                                                    *)
(***************************************************************************)
MaxTransactions == 3
MaxOwners == 2
MaxTotalOwners == 3

(***************************************************************************)
(* Input domains.  Field values are small integers; every field that       *)
(* enters a hash keeps its own position in the hashed payload.             *)
(***************************************************************************)
Locations == {1}
CompanyNames == {1, 2}
\* sourceData: the transaction's fields other than data_bo, nama_korporasi
\* and jenis_transaksi (reporter, transaction number, ...), as one value.
SourceDatas == {1, 2}
IdValues == {1, 2}
JenisIdentitas == {1}
NamaLengkap == {1}
HubunganBo == {1}

\* `MISC-ID-${jenis_identitas}` and the schemeName, per jenis_identitas
MiscScheme == <<"MISC-ID-KTP", "MISC-ID-PASSPORT">>
JenisName == <<"KTP", "PASSPORT">>

\* A data_bo entry.  nama_lengkap stands for every personal field that is
\* not an identifier (name, birth date, address, ...).
BoDatum ==
  [npwp : IdValues, jenis_identitas : JenisIdentitas,
   nomor_identitas : IdValues, nama_lengkap : NamaLengkap,
   hubungan_bo : HubunganBo]

\* Three records cover every matching relation between two owners:
\* (1,1)~(1,2) share the npwp only, (1,2)~(2,2) share the identity number
\* only, (1,1) and (2,2) share nothing.
OwnerRecords == {b \in BoDatum : b.npwp <= b.nomor_identitas}

RECURSIVE SeqsUpTo(_, _)
SeqsUpTo(S, n) ==
  IF n = 0 THEN {<<>>}
  ELSE LET shorter == SeqsUpTo(S, n - 1)
       IN shorter \cup {Append(q, x) : q \in {r \in shorter : Len(r) = n - 1}, x \in S}

\* Three headers cover every change between two transactions: same
\* company with the same or another sourceData, another company with the
\* same or another sourceData.
Transactions ==
  {t \in [nama_korporasi : CompanyNames, sourceData : SourceDatas,
          data_bo : SeqsUpTo(OwnerRecords, MaxOwners)] :
     t.nama_korporasi = 1 \/ t.sourceData = 1}

(***************************************************************************)
(* Sequence helpers (Array.prototype.map / flat / includes); filter is      *)
(* SelectSeq.                                                              *)
(***************************************************************************)
Range(s) == {s[i] : i \in 1..Len(s)}

RECURSIVE Flatten(_)
Flatten(ss) == IF ss = <<>> THEN <<>> ELSE Head(ss) \o Flatten(Tail(ss))

Includes(s, x) == \E i \in 1..Len(s) : s[i] = x

(***************************************************************************)
(* Identifiers of statements.                                              *)
(***************************************************************************)
NoID == [ns |-> "none", hash |-> <<>>]

\* statementID(data): a namespaced hash of JSON.stringify(data).  The hash
\* is modelled by the serialised payload itself (no two payloads collide).
statementID(data) == [ns |-> "openownership-indonesia", hash |-> data]

\* uuidv4(): the k-th draw of an entropy source with the given seed.
uuidv4(rng) == [ns |-> "uuid", hash |-> <<rng.seed, rng.count>>]

NoRef == <<>>

companyIdentifier(data) ==
  [scheme |-> "ID-KHH", schemeName |-> "Ministry of Justice & Human Rights",
   id |-> data.nama_korporasi]

mapCompanyStatement(data, location) ==
  [statementID |-> statementID(<<data.nama_korporasi, location>>),
   statementType |-> "entityStatement",
   identifiers |-> <<companyIdentifier(data)>>,
   subject |-> NoID,
   interestedParty |-> NoID,
   interests |-> NoRef,
   hasReplaces |-> FALSE,
   replacesStatements |-> <<>>]

\* data is the data_bo entry without hubungan_bo
mapPersonStatement(data, sourceData) ==
  [statementID |-> statementID(<<data.npwp, data.jenis_identitas,
                                 data.nomor_identitas, data.nama_lengkap,
                                 sourceData>>),
   statementType |-> "personStatement",
   identifiers |->
     << [scheme |-> "ID-DJP", schemeName |-> "Director General of Taxes",
         id |-> data.npwp],
        [scheme |-> MiscScheme[data.jenis_identitas],
         schemeName |-> JenisName[data.jenis_identitas],
         id |-> data.nomor_identitas] >>,
   subject |-> NoID,
   interestedParty |-> NoID,
   interests |-> NoRef,
   hasReplaces |-> FALSE,
   replacesStatements |-> <<>>]

\* the ownership statementID hashes the person's payload only
mapOwnershipHashingPerson(companyStatement, personStatement, data, sourceData, ref) ==
  [statementID |-> statementID(personStatement.statementID.hash),
   statementType |-> "ownershipOrControlStatement",
   identifiers |-> <<>>,
   subject |-> companyStatement.statementID,
   interestedParty |-> personStatement.statementID,
   interests |-> ref,
   hasReplaces |-> FALSE,
   replacesStatements |-> <<>>]

\* ref is the identity of the freshly allocated interests[0] object
mapOwnershipOrControlStatement(companyStatement, personStatement, data, sourceData, ref) ==
  [statementID |-> statementID(companyStatement.statementID.hash
                               \o personStatement.statementID.hash
                               \o <<data.npwp, data.jenis_identitas,
                                    data.nomor_identitas, data.nama_lengkap,
                                    data.hubungan_bo, sourceData>>),
   statementType |-> "ownershipOrControlStatement",
   identifiers |-> <<>>,
   subject |-> companyStatement.statementID,
   interestedParty |-> personStatement.statementID,
   interests |-> ref,
   hasReplaces |-> FALSE,
   replacesStatements |-> <<>>]

(***************************************************************************)
(* Matching and replacement.                                               *)
(***************************************************************************)
\* the schemeName is compared as well
matchingWithSchemeName(newStatement, oldStatement) ==
  \E i \in 1..Len(newStatement.identifiers) :
    \E j \in 1..Len(oldStatement.identifiers) :
      /\ oldStatement.identifiers[j].scheme = newStatement.identifiers[i].scheme
      /\ oldStatement.identifiers[j].schemeName = newStatement.identifiers[i].schemeName
      /\ oldStatement.identifiers[j].id = newStatement.identifiers[i].id

\* every identifier has to be found, instead of some identifier
matchingAllIdentifiers(newStatement, oldStatement) ==
  /\ newStatement.identifiers # <<>>
  /\ \A i \in 1..Len(newStatement.identifiers) :
       \E j \in 1..Len(oldStatement.identifiers) :
         /\ oldStatement.identifiers[j].scheme = newStatement.identifiers[i].scheme
         /\ oldStatement.identifiers[j].id = newStatement.identifiers[i].id

matchingIdentifiers(newStatement, oldStatement) ==
  \E i \in 1..Len(newStatement.identifiers) :
    \E j \in 1..Len(oldStatement.identifiers) :
      /\ oldStatement.identifiers[j].scheme = newStatement.identifiers[i].scheme
      /\ oldStatement.identifiers[j].id = newStatement.identifiers[i].id

StatementIDs(s) == [i \in 1..Len(s) |-> s[i].statementID]

\* only the first matching statement is recorded (find instead of filter)
replacedStatementsFirstOnly(newStatement, oldStatements) ==
  LET Keep(oldStatement) ==
        /\ oldStatement.statementType = newStatement.statementType
        /\ matchingIdentifiers(newStatement, oldStatement)
      all == StatementIDs(SelectSeq(oldStatements, Keep))
  IN IF all = <<>> THEN <<>> ELSE <<Head(all)>>

replacedStatements(newStatement, oldStatements) ==
  LET Keep(oldStatement) ==
        /\ oldStatement.statementType = newStatement.statementType
        /\ matchingIdentifiers(newStatement, oldStatement)
  IN StatementIDs(SelectSeq(oldStatements, Keep))

\* Array.prototype.find by statementID: the first hit, or no statement
Undefined ==
  [statementID |-> NoID, statementType |-> "undefined", identifiers |-> <<>>,
   subject |-> NoID, interestedParty |-> NoID, interests |-> NoRef,
   hasReplaces |-> FALSE, replacesStatements |-> <<>>]

Find(oldStatements, id) ==
  LET hits == {i \in 1..Len(oldStatements) : oldStatements[i].statementID = id}
  IN IF hits = {} THEN Undefined
     ELSE oldStatements[CHOOSE i \in hits : \A j \in hits : i <= j]

\* a match on either side is taken for a match of the relationship
replacedOwnershipEitherSide(newStatement, newInterestedParty, newSubject, oldStatements) ==
  LET Keep(s) ==
        /\ s.statementType = newStatement.statementType
        /\ LET oldInterestedParty == Find(oldStatements, s.interestedParty)
               oldSubject == Find(oldStatements, s.subject)
           IN \/ matchingIdentifiers(newInterestedParty, oldInterestedParty)
              \/ matchingIdentifiers(newSubject, oldSubject)
  IN StatementIDs(SelectSeq(oldStatements, Keep))

replacedOwnershipStatements(newStatement, newInterestedParty, newSubject, oldStatements) ==
  LET Keep(s) ==
        /\ s.statementType = newStatement.statementType
        /\ LET oldInterestedParty == Find(oldStatements, s.interestedParty)
               oldSubject == Find(oldStatements, s.subject)
           IN /\ matchingIdentifiers(newInterestedParty, oldInterestedParty)
              /\ matchingIdentifiers(newSubject, oldSubject)
  IN StatementIDs(SelectSeq(oldStatements, Keep))

\* matchingIdentifiers reads oldStatement.identifiers inside the callback of
\* newStatement.identifiers.some: with oldStatement undefined that read is
\* a TypeError, unless newStatement has no identifier and the callback
\* never runs.
matchingIdentifiersThrows(newStatement, oldStatement) ==
  oldStatement = Undefined /\ newStatement.identifiers # <<>>

\* The filter callback of replacedOwnershipStatements throws when the first
\* matchingIdentifiers throws, or when it is true and the second one (not
\* reached otherwise, by &&) throws.  Within a run of statements() every
\* reference of a previous ownership statement is found in the baseline.
replacedOwnershipStatementsThrows(newStatement, newInterestedParty, newSubject, oldStatements) ==
  \E k \in 1..Len(oldStatements) :
    LET s == oldStatements[k]
        oldInterestedParty == Find(oldStatements, s.interestedParty)
        oldSubject == Find(oldStatements, s.subject)
    IN /\ s.statementType = newStatement.statementType
       /\ \/ matchingIdentifiersThrows(newInterestedParty, oldInterestedParty)
          \/ /\ matchingIdentifiers(newInterestedParty, oldInterestedParty)
             /\ matchingIdentifiersThrows(newSubject, oldSubject)

(***************************************************************************)
(* One transaction (the flatMap callback of statements()).  The callback   *)
(* works on an accumulator acc = [seen, ts, ns]: seenStatementIds,         *)
(* transactionStatements and newStatements.                                *)
(***************************************************************************)
\* the seen-set test is lost: every candidate is emitted
EmitAlways(acc, stmt, replaces) ==
  LET fresh == [stmt EXCEPT !.hasReplaces = TRUE, !.replacesStatements = replaces]
  IN [seen |-> acc.seen \cup {stmt.statementID},
      ts |-> Append(acc.ts, fresh),
      ns |-> Append(acc.ns, fresh)]

\* seenStatementIds.add is lost: nothing is ever remembered
EmitWithoutAdd(acc, stmt, replaces) ==
  IF stmt.statementID \in acc.seen
  THEN [acc EXCEPT !.ts = Append(@, stmt)]
  ELSE LET fresh == [stmt EXCEPT !.hasReplaces = TRUE,
                                 !.replacesStatements = replaces]
       IN [seen |-> acc.seen,
           ts |-> Append(acc.ts, fresh),
           ns |-> Append(acc.ns, fresh)]

\* if (!seen.has(id)) { seen.add(id); s.replacesStatements = ...; newStatements.push(s) }
EmitIfNew(acc, stmt, replaces) ==
  IF stmt.statementID \in acc.seen
  THEN [acc EXCEPT !.ts = Append(@, stmt)]
  ELSE LET fresh == [stmt EXCEPT !.hasReplaces = TRUE,
                                 !.replacesStatements = replaces]
       IN [seen |-> acc.seen \cup {stmt.statementID},
           ts |-> Append(acc.ts, fresh),
           ns |-> Append(acc.ns, fresh)]

ProcessCompany(acc, companyStatement, prev) ==
  EmitIfNew(acc, companyStatement, replacedStatements(companyStatement, prev))

\* the ownership statement is pushed before the person statement
ProcessOwnerOwnershipFirst(acc, companyStatement, bo_datum, sourceData, prev, ref) ==
  LET personStatement == mapPersonStatement(bo_datum, sourceData)
      ownershipOrControlStatement ==
        mapOwnershipOrControlStatement(companyStatement, personStatement,
                                       bo_datum, sourceData, ref)
      acc1 == EmitIfNew(acc, ownershipOrControlStatement,
                        replacedOwnershipStatements(ownershipOrControlStatement,
                                                    personStatement, companyStatement, prev))
  IN EmitIfNew(acc1, personStatement, replacedStatements(personStatement, prev))

\* the body of transaction['data_bo'].forEach for the i-th entry
ProcessOwner(acc, companyStatement, bo_datum, sourceData, prev, ref) ==
  LET personStatement == mapPersonStatement(bo_datum, sourceData)
      acc1 == EmitIfNew(acc, personStatement,
                        replacedStatements(personStatement, prev))
      ownershipOrControlStatement ==
        mapOwnershipOrControlStatement(companyStatement, personStatement,
                                       bo_datum, sourceData, ref)
  IN EmitIfNew(acc1, ownershipOrControlStatement,
               replacedOwnershipStatements(ownershipOrControlStatement,
                                           personStatement, companyStatement, prev))

RECURSIVE ProcessOwners(_, _, _, _, _, _, _)
ProcessOwners(acc, companyStatement, data_bo, sourceData, prev, txn, i) ==
  IF i > Len(data_bo) THEN acc
  ELSE ProcessOwners(
         ProcessOwner(acc, companyStatement, data_bo[i], sourceData, prev, <<txn, i>>),
         companyStatement, data_bo, sourceData, prev, txn, i + 1)

\* any replacement at all spares ps, not only a replacement of ps
NeedsClosingUnlessAnyReplacement(ps, transactionStatements) ==
  /\ ~ \E i \in 1..Len(transactionStatements) :
         transactionStatements[i].statementID = ps.statementID
  /\ ~ \E i \in 1..Len(transactionStatements) :
         /\ transactionStatements[i].hasReplaces
         /\ transactionStatements[i].replacesStatements # <<>>

\* the replacement test is lost: only an unchanged statementID spares ps
NeedsClosingUnlessSameID(ps, transactionStatements) ==
  ~ \E i \in 1..Len(transactionStatements) :
      transactionStatements[i].statementID = ps.statementID

\* the condition of the closure pass for a previous ownership statement ps
NeedsClosing(ps, transactionStatements) ==
  /\ ~ \E i \in 1..Len(transactionStatements) :
         transactionStatements[i].statementID = ps.statementID
  /\ ~ \E i \in 1..Len(transactionStatements) :
         /\ transactionStatements[i].hasReplaces
         /\ Includes(transactionStatements[i].replacesStatements, ps.statementID)

\* cl = [ns, endDated, rng]; pss = the previous ownership statements left
RECURSIVE ClosePrevious(_, _, _)
ClosePrevious(cl, pss, transactionStatements) ==
  IF pss = <<>> THEN cl
  ELSE LET ps == Head(pss)
       IN IF NeedsClosing(ps, transactionStatements)
          THEN LET endingStatement ==
                     [ps EXCEPT !.statementID = uuidv4(cl.rng),
                                !.hasReplaces = TRUE,
                                !.replacesStatements = <<ps.statementID>>]
               IN ClosePrevious(
                    [ns |-> Append(cl.ns, endingStatement),
                     \* interests[0] is shared with ps: the end date lands on both
                     endDated |-> cl.endDated \cup {ps.interests},
                     rng |-> [cl.rng EXCEPT !.count = @ + 1]],
                    Tail(pss), transactionStatements)
          ELSE ClosePrevious(cl, Tail(pss), transactionStatements)

IsOwnership(s) == s.statementType = "ownershipOrControlStatement"

\* the baseline keeps only the newly emitted candidates
NextPrevOnlyNew(prevTransactionStatements, transactionStatements) ==
  SelectSeq(transactionStatements, LAMBDA s : s.hasReplaces)

\* the baseline is extended instead of replaced
NextPrevAccumulated(prevTransactionStatements, transactionStatements) ==
  prevTransactionStatements \o transactionStatements

\* prevTransactionStatements = transactionStatements
NextPrev(prevTransactionStatements, transactionStatements) == transactionStatements

\* the baseline is taken from newStatements, closing statements included
StepBaselineFromNewStatements(run, transaction, location, txn) ==
  LET companyStatement == mapCompanyStatement(transaction, location)
      acc0 == [seen |-> run.seen, ts |-> <<>>, ns |-> <<>>]
      acc1 == ProcessCompany(acc0, companyStatement, run.prev)
      acc2 == ProcessOwners(acc1, companyStatement, transaction.data_bo,
                            transaction.sourceData, run.prev, txn, 1)
      cl == ClosePrevious([ns |-> acc2.ns, endDated |-> run.endDated, rng |-> run.rng],
                          SelectSeq(run.prev, IsOwnership), acc2.ts)
  IN [seen |-> acc2.seen,
      prev |-> cl.ns,
      results |-> Append(run.results, cl.ns),
      history |-> Append(run.history, acc2.ts),
      endDated |-> cl.endDated,
      rng |-> cl.rng]

\* run = [seen, prev, results, history, endDated, rng]; the state after the callback
\* has returned for transaction number txn
Step(run, transaction, location, txn) ==
  LET companyStatement == mapCompanyStatement(transaction, location)
      acc0 == [seen |-> run.seen, ts |-> <<>>, ns |-> <<>>]
      acc1 == ProcessCompany(acc0, companyStatement, run.prev)
      acc2 == ProcessOwners(acc1, companyStatement, transaction.data_bo,
                            transaction.sourceData, run.prev, txn, 1)
      cl == ClosePrevious([ns |-> acc2.ns, endDated |-> run.endDated, rng |-> run.rng],
                          SelectSeq(run.prev, IsOwnership), acc2.ts)
  IN [seen |-> acc2.seen,
      prev |-> NextPrev(run.prev, acc2.ts),
      results |-> Append(run.results, cl.ns),
      history |-> Append(run.history, acc2.ts),
      endDated |-> cl.endDated,
      rng |-> cl.rng]

(***************************************************************************)
(* State.                                                                  *)
(***************************************************************************)
VARIABLES
  companyLocation,            \* data.data.kedudukan
  data_transaksi,             \* the transactions consumed so far
  seenStatementIds,
  prevTransactionStatements,
  results,                    \* newStatements returned by each callback
  allTransactionStatements,   \* transactionStatements of each callback (history)
  endDated,                   \* interests[0] objects that carry an endDate
  rng,                        \* entropy source of uuidv4
  secondRun,                  \* a second run of statements() on the same input
  call                        \* a direct call of a matching function and its outcome

vars == <<companyLocation, data_transaksi, seenStatementIds,
          prevTransactionStatements, results, allTransactionStatements,
          endDated, rng, secondRun, call>>

Seeds == {1, 2}

NoCall ==
  [op |-> "none", newStatement |-> Undefined, oldStatement |-> Undefined,
   newSubject |-> Undefined, oldStatements |-> <<>>,
   threw |-> FALSE, matched |-> FALSE, reverse |-> FALSE, value |-> <<>>]

NewRun(seed) ==
  [seen |-> {}, prev |-> <<>>, results |-> <<>>, history |-> <<>>, endDated |-> {},
   rng |-> [seed |-> seed, count |-> 0]]

ThisRun ==
  [seen |-> seenStatementIds, prev |-> prevTransactionStatements,
   results |-> results, history |-> allTransactionStatements,
   endDated |-> endDated, rng |-> rng]

\* what flatMap returns when the input ends here
output == Flatten(results)
secondOutput == Flatten(secondRun.results)

RECURSIVE TotalOwners(_)
TotalOwners(ts) ==
  IF ts = <<>> THEN 0 ELSE Len(Head(ts).data_bo) + TotalOwners(Tail(ts))

Init ==
  /\ companyLocation \in Locations
  /\ data_transaksi = <<>>
  /\ seenStatementIds = {}
  /\ prevTransactionStatements = <<>>
  /\ results = <<>>
  /\ allTransactionStatements = <<>>
  /\ endDated = {}
  /\ rng = [seed |-> 1, count |-> 0]
  /\ secondRun = NewRun(1)
  /\ call = NoCall

InBounds(transaction) ==
  /\ Len(data_transaksi) < MaxTransactions
  /\ TotalOwners(data_transaksi) + Len(transaction.data_bo) <= MaxTotalOwners

Apply(transaction) ==
  LET next == Step(ThisRun, transaction, companyLocation, Len(data_transaksi) + 1)
  IN /\ data_transaksi' = Append(data_transaksi, transaction)
     /\ seenStatementIds' = next.seen
     /\ prevTransactionStatements' = next.prev
     /\ results' = next.results
     /\ allTransactionStatements' = next.history
     /\ endDated' = next.endDated
     /\ rng' = next.rng
     /\ UNCHANGED <<companyLocation, call>>

ProcessTransaction ==
  \E transaction \in Transactions :
    /\ InBounds(transaction)
    /\ Apply(transaction)
    /\ UNCHANGED secondRun

Next == ProcessTransaction

Spec == Init /\ [][Next]_vars

(***************************************************************************)
(* Two runs of statements() on the same input, each with its own entropy.  *)
(***************************************************************************)
InitTwoRuns ==
  /\ companyLocation \in Locations
  /\ data_transaksi = <<>>
  /\ seenStatementIds = {}
  /\ prevTransactionStatements = <<>>
  /\ results = <<>>
  /\ allTransactionStatements = <<>>
  /\ endDated = {}
  /\ rng = [seed |-> 1, count |-> 0]
  /\ \E seed \in Seeds : secondRun = NewRun(seed)
  /\ call = NoCall

ProcessTransactionTwice ==
  \E transaction \in Transactions :
    /\ InBounds(transaction)
    /\ Apply(transaction)
    /\ secondRun' = Step(secondRun, transaction, companyLocation,
                         Len(data_transaksi) + 1)

NextTwoRuns == ProcessTransactionTwice

SpecTwoRuns == InitTwoRuns /\ [][NextTwoRuns]_vars

(***************************************************************************)
(* Direct calls of matchingIdentifiers and replacedOwnershipStatements on  *)
(* inputs that a run of statements() does not produce (empty identifier    *)
(* lists, references that are not in oldStatements).                       *)
(***************************************************************************)
MaxIdentifiers == 2
MaxOldStatements == 2

Identifiers ==
  [scheme : {"ID-DJP", "MISC-ID-KTP"},
   schemeName : {"Director General of Taxes", "KTP"},
   id : IdValues]

\* a person statement with the given identifier list
PersonWith(identifiers) ==
  [mapPersonStatement(CHOOSE b \in OwnerRecords : b.npwp = b.nomor_identitas, 1)
     EXCEPT !.identifiers = identifiers]

CallMatchingIdentifiers ==
  /\ call = NoCall
  /\ \E a, b \in SeqsUpTo(Identifiers, MaxIdentifiers) :
    /\ call' = [NoCall EXCEPT
                  !.op = "matchingIdentifiers",
                  !.newStatement = PersonWith(a),
                  !.oldStatement = PersonWith(b),
                  !.matched = matchingIdentifiers(PersonWith(a), PersonWith(b)),
                  !.reverse = matchingIdentifiers(PersonWith(b), PersonWith(a))]
    /\ UNCHANGED <<companyLocation, data_transaksi, seenStatementIds,
                   prevTransactionStatements, results, allTransactionStatements,
                   endDated, rng, secondRun>>

\* the statements a transaction can hold, as elements of oldStatements
Companies == {mapCompanyStatement([nama_korporasi |-> c], l) : c \in CompanyNames, l \in Locations}
Persons == {mapPersonStatement(b, 1) : b \in OwnerRecords}
Ownerships ==
  UNION { {mapOwnershipOrControlStatement(
             mapCompanyStatement([nama_korporasi |-> c], l),
             mapPersonStatement(b, 1), b, 1, <<1, 1>>) : c \in CompanyNames, l \in Locations}
          : b \in OwnerRecords }

CallReplacedOwnershipStatements ==
  /\ call = NoCall
  /\ \E oldStatements \in SeqsUpTo(Companies \cup Persons \cup Ownerships, MaxOldStatements),
     newInterestedParty \in Persons \cup {PersonWith(<<>>)},
     newSubject \in Companies,
     newStatement \in Ownerships :
    /\ newStatement.interestedParty = newInterestedParty.statementID
    /\ newStatement.subject = newSubject.statementID
    /\ LET threw == replacedOwnershipStatementsThrows(newStatement, newInterestedParty,
                                                      newSubject, oldStatements)
       IN call' = [NoCall EXCEPT
                     !.op = "replacedOwnershipStatements",
                     !.newStatement = newInterestedParty,
                     !.newSubject = newSubject,
                     !.oldStatements = oldStatements,
                     !.threw = threw,
                     !.value = IF threw THEN <<>>
                               ELSE replacedOwnershipStatements(
                                      newStatement, newInterestedParty,
                                      newSubject, oldStatements)]
    /\ UNCHANGED <<companyLocation, data_transaksi, seenStatementIds,
                   prevTransactionStatements, results, allTransactionStatements,
                   endDated, rng, secondRun>>

NextCalls == CallMatchingIdentifiers \/ CallReplacedOwnershipStatements

SpecCalls == Init /\ [][NextCalls]_vars

(***************************************************************************)
(* Vocabulary of the properties.                                           *)
(***************************************************************************)
Processed == 1..Len(results)
IsClosing(s) == s.statementID.ns = "uuid"
IDsOf(s) == {s[i].statementID : i \in 1..Len(s)}
\* the closing statements among the statements emitted for transaction n
ClosingsFor(n, id) ==
  {i \in 1..Len(results[n]) :
     IsClosing(results[n][i]) /\ results[n][i].replacesStatements = <<id>>}
HasEndDate(s) == s.interests \in endDated
RepeatsAnOwner(t) ==
  \E i, j \in 1..Len(t.data_bo) : i # j /\ t.data_bo[i] = t.data_bo[j]

(***************************************************************************)
(* C1: no statementID occurs twice in the list returned by statements(),   *)
(* whatever the kind of statement.                                         *)
(***************************************************************************)
GlobalUniqueness ==
  \A i, j \in 1..Len(output) :
    i # j => output[i].statementID # output[j].statementID

\* a run that repeated an owner inside one transaction and emitted a closing
\* statement later on
GlobalUniquenessWitness ==
  /\ \E n \in 1..Len(data_transaksi) : RepeatsAnOwner(data_transaksi[n])
  /\ \E i \in 1..Len(output) : IsClosing(output[i])
  /\ Len(output) >= 4

(***************************************************************************)
(* C2: an ownership statement among the candidates of transaction n whose  *)
(* statementID is no candidate's statementID in transaction n+1 is listed  *)
(* in the replacesStatements of a statement emitted for transaction n+1.   *)
(***************************************************************************)
NoSilentLoss ==
  \A n \in Processed :
    n > 1 =>
      \A k \in 1..Len(allTransactionStatements[n - 1]) :
        LET ps == allTransactionStatements[n - 1][k]
        IN (IsOwnership(ps) /\ ps.statementID \notin IDsOf(allTransactionStatements[n]))
           => \E i \in 1..Len(results[n]) :
                Includes(results[n][i].replacesStatements, ps.statementID)

\* one transaction lost two ownerships: one is replaced by a new ownership
\* statement, the other one is closed
NoSilentLossWitness ==
  \E n \in Processed :
    /\ n > 1
    /\ \E i, j \in 1..Len(results[n]) :
         /\ IsClosing(results[n][i])
         /\ ~IsClosing(results[n][j])
         /\ IsOwnership(results[n][j])
         /\ results[n][j].replacesStatements # <<>>

(***************************************************************************)
(* C3: every statementID in the replacesStatements of a statement emitted  *)
(* for transaction n is the statementID of a candidate of transaction      *)
(* n-1; for the first transaction every replacesStatements is empty.       *)
(***************************************************************************)
ReplacementLocality ==
  \A n \in Processed :
    \A i \in 1..Len(results[n]) :
      \A id \in Range(results[n][i].replacesStatements) :
        n > 1 /\ id \in IDsOf(allTransactionStatements[n - 1])

\* a third transaction replaces statements of the second one while the
\* first transaction held other statements with matching identifiers
ReplacementLocalityWitness ==
  /\ Len(results) = 3
  /\ \E i \in 1..Len(results[3]) :
       /\ ~IsClosing(results[3][i])
       /\ results[3][i].replacesStatements # <<>>
       /\ \E k \in 1..Len(allTransactionStatements[1]) :
            LET old == allTransactionStatements[1][k]
            IN /\ old.statementType = "personStatement"
               /\ results[3][i].statementType = "personStatement"
               /\ matchingIdentifiers(results[3][i], old)
               /\ old.statementID \notin IDsOf(allTransactionStatements[2])

(***************************************************************************)
(* C4: for transaction n, a closing statement is emitted for an ownership  *)
(* statement ps of transaction n-1 exactly when no candidate of            *)
(* transaction n has ps's statementID and no statement newly emitted for   *)
(* transaction n lists it in replacesStatements.  Every closing statement  *)
(* replaces exactly one ownership statement of transaction n-1, its        *)
(* statementID differs from every other emitted one and its interest       *)
(* carries an end date.                                                    *)
(***************************************************************************)
ClosureContract ==
  \A n \in Processed :
    /\ n > 1 =>
         \A k \in 1..Len(allTransactionStatements[n - 1]) :
           LET ps == allTransactionStatements[n - 1][k]
           IN IsOwnership(ps) =>
                ( ClosingsFor(n, ps.statementID) # {}
                  <=> /\ ps.statementID \notin IDsOf(allTransactionStatements[n])
                      /\ ~ \E i \in 1..Len(results[n]) :
                             /\ ~IsClosing(results[n][i])
                             /\ Includes(results[n][i].replacesStatements,
                                         ps.statementID) )
    /\ \A i \in 1..Len(results[n]) :
         IsClosing(results[n][i]) =>
           /\ n > 1
           /\ \E k \in 1..Len(allTransactionStatements[n - 1]) :
                /\ IsOwnership(allTransactionStatements[n - 1][k])
                /\ results[n][i].replacesStatements =
                     <<allTransactionStatements[n - 1][k].statementID>>
           /\ HasEndDate(results[n][i])
           /\ Cardinality({j \in 1..Len(output) :
                             output[j].statementID = results[n][i].statementID}) = 1

\* one transaction closes one previous ownership and keeps or replaces
\* another one
ClosureContractWitness ==
  \E n \in Processed :
    /\ n > 1
    /\ \E k, m \in 1..Len(allTransactionStatements[n - 1]) :
         /\ IsOwnership(allTransactionStatements[n - 1][k])
         /\ IsOwnership(allTransactionStatements[n - 1][m])
         /\ ClosingsFor(n, allTransactionStatements[n - 1][k].statementID) # {}
         /\ ClosingsFor(n, allTransactionStatements[n - 1][m].statementID) = {}
         /\ \E i \in 1..Len(results[n]) :
              Includes(results[n][i].replacesStatements,
                       allTransactionStatements[n - 1][m].statementID)

(***************************************************************************)
(* C5: a transaction whose candidates have exactly the statementIDs of the *)
(* previous transaction's candidates emits nothing.                        *)
(***************************************************************************)
UnchangedSnapshotEmitsNothing ==
  \A n \in Processed :
    ( /\ n > 1
      /\ IDsOf(allTransactionStatements[n]) = IDsOf(allTransactionStatements[n - 1]) )
    => results[n] = <<>>

\* the same transaction with an owner, twice in a row
UnchangedSnapshotWitness ==
  \E n \in Processed :
    /\ n > 1
    /\ data_transaksi[n] = data_transaksi[n - 1]
    /\ data_transaksi[n].data_bo # <<>>
    /\ results[n - 1] # <<>>

(***************************************************************************)
(* C6: an owner of transaction 1 comes back in transaction 2 with the same *)
(* name and changed identifiers.  Then transaction 2 emits a new person    *)
(* statement that replaces the old person statement and a new ownership    *)
(* statement that replaces the old ownership statement, and no closing     *)
(* statement for the old ownership statement.                              *)
(***************************************************************************)
\* the candidates of owner i of transaction n: person, then ownership
PersonCandidate(n, i) == allTransactionStatements[n][2 * i]
OwnershipCandidate(n, i) == allTransactionStatements[n][2 * i + 1]

\* owner j of transaction 2 is owner i of transaction 1 under the same
\* company and name, with another identifier, and is no copy of a record
\* that transaction 1 already held
ChangedOwner(i, j) ==
  LET old == data_transaksi[1].data_bo[i]
      new == data_transaksi[2].data_bo[j]
  IN /\ data_transaksi[1].nama_korporasi = data_transaksi[2].nama_korporasi
     /\ old.nama_lengkap = new.nama_lengkap
     /\ <<old.npwp, old.jenis_identitas, old.nomor_identitas>>
          # <<new.npwp, new.jenis_identitas, new.nomor_identitas>>
     /\ PersonCandidate(2, j).statementID \notin IDsOf(allTransactionStatements[1])

KeepsAnIdentifier(i, j) ==
  LET old == data_transaksi[1].data_bo[i]
      new == data_transaksi[2].data_bo[j]
  IN \/ old.npwp = new.npwp
     \/ /\ old.jenis_identitas = new.jenis_identitas
        /\ old.nomor_identitas = new.nomor_identitas

RecordedAsReplacement(i, j) ==
  /\ \E k \in 1..Len(results[2]) :
       /\ results[2][k].statementID = PersonCandidate(2, j).statementID
       /\ Includes(results[2][k].replacesStatements, PersonCandidate(1, i).statementID)
  /\ \E k \in 1..Len(results[2]) :
       /\ results[2][k].statementID = OwnershipCandidate(2, j).statementID
       /\ Includes(results[2][k].replacesStatements, OwnershipCandidate(1, i).statementID)
  /\ ClosingsFor(2, OwnershipCandidate(1, i).statementID) = {}

\* the claim as stated: any change of the identifiers
ChangedIdentifierIsReplacement ==
  Len(results) >= 2 =>
    \A i \in 1..Len(data_transaksi[1].data_bo) :
      \A j \in 1..Len(data_transaksi[2].data_bo) :
        ChangedOwner(i, j) => RecordedAsReplacement(i, j)

\* C6 as amended: the replacement is recorded when one of the owner's two
\* identifiers (npwp, or identity number of the same kind) is unchanged
ChangedIdentifierKeepingOneIsReplacement ==
  Len(results) >= 2 =>
    \A i \in 1..Len(data_transaksi[1].data_bo) :
      \A j \in 1..Len(data_transaksi[2].data_bo) :
        (ChangedOwner(i, j) /\ KeepsAnIdentifier(i, j)) => RecordedAsReplacement(i, j)

ChangedIdentifierWitness ==
  /\ Len(results) >= 2
  /\ \E i \in 1..Len(data_transaksi[1].data_bo) :
       \E j \in 1..Len(data_transaksi[2].data_bo) :
         /\ ChangedOwner(i, j)
         /\ KeepsAnIdentifier(i, j)
         /\ data_transaksi[1].sourceData = data_transaksi[2].sourceData

(***************************************************************************)
(* C7: two runs of statements() on the same input return the same          *)
(* statements, closing statements and their statementIDs included (the     *)
(* model carries no timestamp or publication field).                       *)
(***************************************************************************)
RunsAgree == output = secondOutput

(***************************************************************************)
(* C8: the statements emitted for a transaction are its new candidates in  *)
(* candidate order (company, then per owner in input order the person      *)
(* statement followed by the ownership statement), and after them the      *)
(* closing statements.                                                     *)
(***************************************************************************)
HasReplaces(s) == s.hasReplaces

EmissionOrder ==
  \A n \in Processed :
    LET ts == allTransactionStatements[n]
        new == SelectSeq(ts, HasReplaces)
        owners == data_transaksi[n].data_bo
    IN /\ Len(ts) = 1 + 2 * Len(owners)
       /\ ts[1].statementID = mapCompanyStatement(data_transaksi[n], companyLocation).statementID
       /\ \A i \in 1..Len(owners) :
            /\ ts[2 * i].statementID =
                 mapPersonStatement(owners[i], data_transaksi[n].sourceData).statementID
            /\ IsOwnership(ts[2 * i + 1])
            /\ ts[2 * i + 1].interestedParty = ts[2 * i].statementID
            /\ ts[2 * i + 1].subject = ts[1].statementID
       /\ Len(results[n]) >= Len(new)
       /\ SubSeq(results[n], 1, Len(new)) = new
       /\ \A k \in 1..Len(new) : ~IsClosing(new[k])
       /\ \A k \in (Len(new) + 1)..Len(results[n]) : IsClosing(results[n][k])

\* a transaction that emits a company, a person, an ownership and a closing
\* statement
EmissionOrderWitness ==
  \E n \in Processed :
    /\ Len(results[n]) >= 4
    /\ results[n][1].statementType = "entityStatement"
    /\ \E k \in 1..Len(results[n]) : IsClosing(results[n][k])
    /\ \E k \in 1..Len(results[n]) : results[n][k].statementType = "personStatement"

(***************************************************************************)
(* C9: a first transaction with a company and one owner emits exactly the  *)
(* company, person and ownership statement, each with an empty             *)
(* replacesStatements, and no closing statement.                           *)
(***************************************************************************)
FirstTransaction ==
  (Len(results) >= 1 /\ Len(data_transaksi[1].data_bo) = 1) =>
    /\ Len(results[1]) = 3
    /\ results[1][1].statementType = "entityStatement"
    /\ results[1][2].statementType = "personStatement"
    /\ results[1][3].statementType = "ownershipOrControlStatement"
    /\ \A k \in 1..3 :
         /\ results[1][k].hasReplaces
         /\ results[1][k].replacesStatements = <<>>
         /\ ~IsClosing(results[1][k])

FirstTransactionWitness ==
  /\ Len(results) = 1
  /\ Len(data_transaksi[1].data_bo) = 1
  /\ Len(output) = 3

(***************************************************************************)
(* C10: no closing statement is emitted for a previous ownership statement *)
(* when an ownership candidate of the current transaction connects a       *)
(* person and a company whose identifiers match those of the previous      *)
(* ownership statement's person and company.                               *)
(***************************************************************************)
SameRelationship(n, ps, c) ==
  /\ IsOwnership(ps)
  /\ IsOwnership(c)
  /\ matchingIdentifiers(Find(allTransactionStatements[n], c.interestedParty),
                         Find(allTransactionStatements[n - 1], ps.interestedParty))
  /\ matchingIdentifiers(Find(allTransactionStatements[n], c.subject),
                         Find(allTransactionStatements[n - 1], ps.subject))

ClosedOnlyWhenRelationshipGone ==
  \A n \in Processed :
    n > 1 =>
      \A k \in 1..Len(allTransactionStatements[n - 1]) :
        \A m \in 1..Len(allTransactionStatements[n]) :
          SameRelationship(n, allTransactionStatements[n - 1][k],
                           allTransactionStatements[n][m])
          => ClosingsFor(n, allTransactionStatements[n - 1][k].statementID) = {}

\* the sequence A, B, A of C10: one owner under one company, reported with
\* sourceData 1, 2, 1; the third transaction closes B's ownership statement
ClosedWhileStillOwner ==
  /\ Len(results) = 3
  /\ \A n \in 1..3 : data_transaksi[n].nama_korporasi = 1
                     /\ data_transaksi[n].data_bo = data_transaksi[1].data_bo
  /\ Len(data_transaksi[1].data_bo) = 1
  /\ data_transaksi[1].sourceData = 1
  /\ data_transaksi[2].sourceData = 2
  /\ data_transaksi[3].sourceData = 1
  /\ ClosingsFor(3, OwnershipCandidate(2, 1).statementID) # {}

(***************************************************************************)
(* C11: the baseline for the next transaction is the full candidate list   *)
(* of the current one, deduplicated candidates included and closing        *)
(* statements excluded.  After a transaction that emitted nothing, a new   *)
(* person statement and its ownership statement still replace the          *)
(* statements of that transaction's owner with a shared identifier.        *)
(***************************************************************************)
SharesAnIdentifier(old, new) ==
  \/ old.npwp = new.npwp
  \/ /\ old.jenis_identitas = new.jenis_identitas
     /\ old.nomor_identitas = new.nomor_identitas

SeenBefore(n) == UNION {IDsOf(allTransactionStatements[m]) : m \in 1..(n - 1)}

BaselineIsFullCandidateSet ==
  /\ Len(results) >= 1 =>
       /\ Len(prevTransactionStatements)
            = 1 + 2 * Len(data_transaksi[Len(results)].data_bo)
       /\ \A k \in 1..Len(prevTransactionStatements) :
            ~IsClosing(prevTransactionStatements[k])
  /\ \A n \in Processed :
       ( /\ n > 1
         /\ results[n - 1] = <<>>
         /\ data_transaksi[n - 1].nama_korporasi = data_transaksi[n].nama_korporasi )
       => \A i \in 1..Len(data_transaksi[n - 1].data_bo) :
            \A j \in 1..Len(data_transaksi[n].data_bo) :
              ( /\ SharesAnIdentifier(data_transaksi[n - 1].data_bo[i],
                                      data_transaksi[n].data_bo[j])
                /\ PersonCandidate(n, j).statementID \notin SeenBefore(n) )
              => /\ \E k \in 1..Len(results[n]) :
                      /\ results[n][k].statementID = PersonCandidate(n, j).statementID
                      /\ Includes(results[n][k].replacesStatements,
                                  PersonCandidate(n - 1, i).statementID)
                 /\ \E k \in 1..Len(results[n]) :
                      /\ results[n][k].statementID = OwnershipCandidate(n, j).statementID
                      /\ Includes(results[n][k].replacesStatements,
                                  OwnershipCandidate(n - 1, i).statementID)

\* the sequence A, A, A': the second transaction emits nothing and the
\* third one brings the owner back with other content
BaselineWitness ==
  /\ Len(results) = 3
  /\ data_transaksi[1] = data_transaksi[2]
  /\ Len(data_transaksi[2].data_bo) = 1
  /\ results[2] = <<>>
  /\ Len(data_transaksi[3].data_bo) = 1
  /\ data_transaksi[3].nama_korporasi = data_transaksi[2].nama_korporasi
  /\ SharesAnIdentifier(data_transaksi[2].data_bo[1], data_transaksi[3].data_bo[1])
  /\ \E k \in 1..Len(results[3]) :
       Includes(results[3][k].replacesStatements, PersonCandidate(2, 1).statementID)

(***************************************************************************)
(* C12: a newly emitted ownership statement replaces a previous ownership  *)
(* statement exactly when the previous owner shares an identifier with the *)
(* new owner and the previous company shares its identifier with the new   *)
(* company; a match on one side only gives no replacement.                 *)
(***************************************************************************)
SameCompanyIdentifier(n) ==
  data_transaksi[n - 1].nama_korporasi = data_transaksi[n].nama_korporasi

OwnershipReplacementNeedsBothSides ==
  \A n \in Processed :
    n > 1 =>
      \A i \in 1..Len(data_transaksi[n - 1].data_bo) :
        \A j \in 1..Len(data_transaksi[n].data_bo) :
          OwnershipCandidate(n, j).hasReplaces =>
            ( Includes(OwnershipCandidate(n, j).replacesStatements,
                       OwnershipCandidate(n - 1, i).statementID)
              <=> /\ SharesAnIdentifier(data_transaksi[n - 1].data_bo[i],
                                        data_transaksi[n].data_bo[j])
                  /\ SameCompanyIdentifier(n) )

\* one transaction emits an ownership statement whose owner matches a
\* previous owner under another company, and a later or earlier one emits
\* an ownership statement that matches on both sides
OneSidedMatchWitness ==
  /\ \E n \in Processed :
       /\ n > 1
       /\ ~SameCompanyIdentifier(n)
       /\ \E i \in 1..Len(data_transaksi[n - 1].data_bo) :
            \E j \in 1..Len(data_transaksi[n].data_bo) :
              /\ OwnershipCandidate(n, j).hasReplaces
              /\ SharesAnIdentifier(data_transaksi[n - 1].data_bo[i],
                                    data_transaksi[n].data_bo[j])
              /\ OwnershipCandidate(n, j).replacesStatements = <<>>
  /\ \E n \in Processed :
       /\ n > 1
       /\ SameCompanyIdentifier(n)
       /\ \E j \in 1..Len(data_transaksi[n].data_bo) :
            /\ OwnershipCandidate(n, j).hasReplaces
            /\ OwnershipCandidate(n, j).replacesStatements # <<>>

(***************************************************************************)
(* C15: the replacesStatements of a newly emitted company or person        *)
(* statement lists, in the order of the previous transaction's candidates, *)
(* the statementIDs of exactly those candidates that have its              *)
(* statementType and share an identifier (scheme, id) with it.             *)
(***************************************************************************)
IdentifierTuples(s) ==
  {<<s.identifiers[i].scheme, s.identifiers[i].id>> : i \in 1..Len(s.identifiers)}

CandidatesBefore(n) == IF n > 1 THEN allTransactionStatements[n - 1] ELSE <<>>

AttributeReplacement ==
  \A n \in Processed :
    \A k \in 1..Len(results[n]) :
      LET s == results[n][k]
          Matches(old) ==
            /\ old.statementType = s.statementType
            /\ IdentifierTuples(old) \cap IdentifierTuples(s) # {}
      IN (~IsClosing(s) /\ ~IsOwnership(s)) =>
           s.replacesStatements
             = StatementIDs(SelectSeq(CandidatesBefore(n), Matches))

\* a new person statement replaces two different person statements
AttributeReplacementWitness ==
  \E n \in Processed :
    \E k \in 1..Len(results[n]) :
      /\ results[n][k].statementType = "personStatement"
      /\ Len(results[n][k].replacesStatements) = 2
      /\ results[n][k].replacesStatements[1] # results[n][k].replacesStatements[2]

(***************************************************************************)
(* C16: no statementID occurs twice in the replacesStatements of an        *)
(* emitted statement.                                                      *)
(***************************************************************************)
NoDuplicates(seq) == \A i, j \in 1..Len(seq) : i # j => seq[i] # seq[j]

ReplacesStatementsIsASet ==
  \A k \in 1..Len(output) : NoDuplicates(output[k].replacesStatements)

(***************************************************************************)
(* C17: the statementID of a closing statement is never listed in a        *)
(* replacesStatements (so no statement replaces and no closing statement   *)
(* closes a closing statement), and no closing statement is part of the    *)
(* baseline of the next transaction.                                       *)
(***************************************************************************)
ClosedIsTerminal ==
  /\ \A k \in 1..Len(output) :
       \A id \in Range(output[k].replacesStatements) : id.ns # "uuid"
  /\ \A k \in 1..Len(prevTransactionStatements) :
       ~IsClosing(prevTransactionStatements[k])

\* a transaction closes an ownership and the next transaction brings the
\* owner back with statements that replace nothing
ClosedIsTerminalWitness ==
  /\ Len(results) = 3
  /\ \E k \in 1..Len(results[2]) : IsClosing(results[2][k])
  /\ data_transaksi[3].nama_korporasi = data_transaksi[1].nama_korporasi
  /\ \E i \in 1..Len(data_transaksi[1].data_bo) :
       \E j \in 1..Len(data_transaksi[3].data_bo) :
         /\ SharesAnIdentifier(data_transaksi[1].data_bo[i], data_transaksi[3].data_bo[j])
         /\ OwnershipCandidate(3, j).hasReplaces

(***************************************************************************)
(* C18: closing an ownership statement leaves the statement it closes      *)
(* without an end date: the only ownership statements of the output whose  *)
(* interest carries an end date are closing statements.                    *)
(***************************************************************************)
OnlyClosingStatementsCarryEndDate ==
  \A k \in 1..Len(output) :
    (IsOwnership(output[k]) /\ HasEndDate(output[k])) => IsClosing(output[k])

(***************************************************************************)
(* C19: after each transaction, every ownership candidate of that          *)
(* transaction has its statementID in the output emitted so far, and no    *)
(* statement emitted so far lists that statementID in replacesStatements.  *)
(***************************************************************************)
CurrentSnapshotRecoverable ==
  \A n \in Processed :
    n = Len(results) =>
      \A m \in 1..Len(allTransactionStatements[n]) :
        LET c == allTransactionStatements[n][m]
        IN IsOwnership(c) =>
             /\ c.statementID \in IDsOf(output)
             /\ \A k \in 1..Len(output) :
                  ~Includes(output[k].replacesStatements, c.statementID)

\* the sequence A, B, A of C19: after the third transaction, A's ownership
\* statement is a current candidate and is listed as replaced by B's
SupersededWhileCurrent ==
  /\ Len(results) = 3
  /\ data_transaksi[1] = data_transaksi[3]
  /\ Len(data_transaksi[1].data_bo) = 1
  /\ data_transaksi[2] = [data_transaksi[1] EXCEPT !.sourceData = 2]
  /\ \E k \in 1..Len(results[2]) :
       Includes(results[2][k].replacesStatements, OwnershipCandidate(3, 1).statementID)

(***************************************************************************)
(* C20: over a run, at most one closing statement is emitted for any       *)
(* ownership statementID.                                                  *)
(***************************************************************************)
AtMostOneClosure ==
  \A k, m \in 1..Len(output) :
    ( /\ IsClosing(output[k])
      /\ IsClosing(output[m])
      /\ output[k].replacesStatements = output[m].replacesStatements )
    => k = m

(***************************************************************************)
(* C13: when a previous ownership statement refers to a subject or an      *)
(* interested party that is not in oldStatements,                          *)
(* replacedOwnershipStatements returns normally and leaves that statement  *)
(* out of its result.                                                      *)
(***************************************************************************)
Dangling(s, oldStatements) ==
  /\ IsOwnership(s)
  /\ \/ s.subject \notin IDsOf(oldStatements)
     \/ s.interestedParty \notin IDsOf(oldStatements)

DanglingReferenceIsNoMatch ==
  call.op = "replacedOwnershipStatements" =>
    \A k \in 1..Len(call.oldStatements) :
      Dangling(call.oldStatements[k], call.oldStatements) =>
        /\ ~call.threw
        /\ ~Includes(call.value, call.oldStatements[k].statementID)

(***************************************************************************)
(* C14: matchingIdentifiers(a, b) is true exactly when a and b have an     *)
(* identifier with the same scheme and id, whatever the schemeName; it is  *)
(* false when a or b has no identifier; and matchingIdentifiers(b, a)      *)
(* gives the same answer.                                                  *)
(***************************************************************************)
MatchingIdentifiersContract ==
  call.op = "matchingIdentifiers" =>
    /\ call.matched
         <=> IdentifierTuples(call.newStatement) \cap IdentifierTuples(call.oldStatement) # {}
    /\ (call.newStatement.identifiers = <<>> \/ call.oldStatement.identifiers = <<>>)
         => ~call.matched
    /\ call.matched = call.reverse

\* a match of two identifiers that differ in the schemeName, among several
MatchingIdentifiersWitness ==
  /\ call.op = "matchingIdentifiers"
  /\ call.matched
  /\ Len(call.newStatement.identifiers) = 2
  /\ Len(call.oldStatement.identifiers) = 2
  /\ \A i, j \in 1..2 :
       ( /\ call.newStatement.identifiers[i].scheme = call.oldStatement.identifiers[j].scheme
         /\ call.newStatement.identifiers[i].id = call.oldStatement.identifiers[j].id )
       => call.newStatement.identifiers[i].schemeName
            # call.oldStatement.identifiers[j].schemeName

====
